---- MODULE Spec2Model ----
(***************************************************************************)
(* Model of src/agents/tool_adapter.py: the ToolAdapter execution pipeline *)
(* (validate_tool_input, check_permissions, execute_tool with its          *)
(* asyncio.wait_for dispatch, _execute_tool_impl, _record_execution) and   *)
(* reload_registry, get_available_tools and get_tool_health.               *)
(*                                                                         *)
(* execute_tool is a coroutine: each action below is one run of its code   *)
(* between two suspension points of the event loop.  The only suspension   *)
(* point of execute_tool is the await of asyncio.wait_for (line 176).      *)
(* Time is kept per call, in tenths of a second since dispatch.            *)
(*                                                                         *)
(* The synchronous operations (reload_registry, get_available_tools,       *)
(* get_tool_health) are plain methods of the shared adapter: on the event  *)
(* loop each runs as one step (Spec); called from other threads, as a      *)
(* reload that reads a file would be, each read of self.tool_registry is a *)
(* step of its own (ThreadSpec).                                           *)
(*                                                                         *)
(* get_adapter and execute_tool_safe are module functions over the global  *)
(* adapter_instance; SingletonSpec follows callers that reach them from    *)
(* several threads before the adapter exists.                              *)
(***************************************************************************)
EXTENDS Integers, Sequences, FiniteSets, TLC

VARIABLES
    tool_registry,            \* self.tool_registry
    reloads,                  \* number of reload_registry calls made so far
    pc,                       \* per call: idle / awaiting / done / raised
    args,                     \* per call: (tool_name, inputs, context)
    task,                     \* per call: the _execute_tool_impl task wait_for runs
    result,                   \* per call: the ToolResult returned
    log,                      \* per call: the events of the call, in order
    snapshot,                 \* per call: self.tool_registry as the call's validation read it
    tool_execution_counter,   \* Counter, by (tool_name, status, tenant_id)
    tool_execution_duration,  \* Histogram observations, by (tool_name, tenant_id)
    active_tools,             \* Gauge, by (tool_name, tenant_id)
    loader,                   \* history of the runs of _load_registry
    now,                      \* datetime.utcnow(), in ticks
    reader,                   \* per thread: its get_available_tools call
    health,                   \* the dicts get_tool_health returned, in order
    adapter_instance,         \* the module global: None or a ToolAdapter
    getter,                   \* per thread: its execute_tool_safe / get_adapter call
    REGISTRY                  \* prometheus_client.REGISTRY: the metric names registered

vars == <<tool_registry, reloads, pc, args, task, result, log, snapshot,
          tool_execution_counter, tool_execution_duration, active_tools,
          loader, now, reader, health, adapter_instance, getter, REGISTRY>>

\* The module global and what the calls of get_adapter work on
globalVars == <<adapter_instance, getter, REGISTRY>>

\* What the calls of execute_tool leave alone
threadVars == <<loader, now, reader, health, globalVars>>

\* What the calls of get_available_tools and get_tool_health leave alone
adapterVars == <<tool_registry, reloads, pc, args, task, result, log, snapshot,
                 tool_execution_counter, tool_execution_duration, active_tools>>

----------------------------------------------------------------------------
(* Bounds and domains *)

MaxReloads == 1

Calls == {"c1", "c2"}

ToolNames == {"search", "echo", "vault", "legacy", "ghost"}

Tenants == {"acme"}

Tiers == {"guest", "user", "admin", "superuser"}

\* ToolExecutionStatus
Statuses == {"success", "failure", "timeout", "validation_error", "permission_denied"}

\* The input bags a caller passes: a dict (its keys), None, or a mapping
\* whose lookups are answered remotely and raise a timeout error.
InputBags ==
    { [kind |-> "dict", keys |-> {}],
      [kind |-> "dict", keys |-> {"query"}],
      [kind |-> "none", keys |-> {}],
      [kind |-> "lazy", keys |-> {"query"}] }

\* context.max_execution_time, in seconds
MaxTimes == {0, 1}

Sessions == {"s1"}

Contexts ==
    [tenant_id : Tenants, session_id : Sessions, permission_level : Tiers,
     max_execution_time : MaxTimes]

\* Inputs that carry the text an echo tool returns
MessageBags == { [kind |-> "dict", keys |-> {"message"}] }

\* Seconds to tenths of a second
Tenths(seconds) == seconds * 10

WebSearchSleep == 5
AsrSleep == 10
TtsSleep == 8

\* Contents the registry file can have when it is (re)loaded.
CatalogA ==
    "search" :> [type |-> "web_search", required_params |-> <<"query">>,
                 required_permission |-> "user"]
 @@ "echo"   :> [type |-> "echo", required_permission |-> "guest"]
 @@ "vault"  :> [type |-> "asr", required_params |-> <<>>,
                 required_permission |-> "admin"]
 @@ "legacy" :> [required_params |-> <<>>, required_permission |-> "root"]

CatalogB ==
    "search" :> [type |-> "tts", required_params |-> <<"query", "limit">>,
                 required_permission |-> "admin"]
 @@ "vault"  :> [type |-> "asr", required_params |-> <<>>]

EmptyCatalog == [t \in {} |-> [type |-> "unknown"]]

\* A tool whose entry in the file has no body: yaml.safe_load gives None
NullSpec == [null |-> TRUE]

\* A file that parses, with a tool entry that is no mapping
BrokenCatalog ==
    "search" :> NullSpec
 @@ "echo"   :> [type |-> "echo", required_permission |-> "guest"]

\* The order in which the mappings of the file list their tools
KeyOrder == <<"search", "echo", "vault", "legacy", "ghost">>

\* Threads that call get_available_tools
Readers == {"r1", "r2"}

\* The contexts they pass
ReaderContexts == {context \in Contexts : context.max_execution_time = 1}

\* Ticks of the clock, calls of get_tool_health
MaxNow == 2
MaxHealth == 2

\* Reloads while one call of execute_tool is followed
MaxLoads == 2

----------------------------------------------------------------------------
(* Pure helpers *)

\* dict.get(key, default) on a tool spec
Get(spec, key, default) == IF key \in DOMAIN spec THEN spec[key] ELSE default

NoArgs ==
    [tool_name |-> "", inputs |-> [kind |-> "none", keys |-> {}],
     context |-> [tenant_id |-> "", session_id |-> "", permission_level |-> "",
                  max_execution_time |-> 0]]

\* The empty dict that is the default of ToolResult.metadata
NoMetadata == [key \in {} |-> ""]

NoResult ==
    [status |-> "none", data |-> "none", error |-> "none", execution_time |-> 0,
     metadata |-> NoMetadata]

\* A ToolResult built without its error message
ToolResultSilent(status, data, error, time) ==
    [status |-> status, data |-> data, error |-> "none", execution_time |-> time,
     metadata |-> NoMetadata]

ToolResult(status, data, error, time) ==
    [status |-> status, data |-> data, error |-> error, execution_time |-> time,
     metadata |-> NoMetadata]

Count(s, e) == Cardinality({i \in 1..Len(s) : s[i] = e})

NoTask == [state |-> "none", type |-> "none", sleep |-> 0]

\* self.tool_registry.items(): the names, in the order of the mapping
Items(registry) == SelectSeq(KeyOrder, LAMBDA t : t \in DOMAIN registry)

\* Threads that call execute_tool_safe
Getters == {"g1", "g2"}

\* The names ToolAdapter.__init__ registers, in its order
MetricNames ==
    <<"primarch_tool_executions_total",
      "primarch_tool_execution_duration_seconds",
      "primarch_active_tool_executions">>

NoGetter == [pc |-> "idle", registered |-> 0, adapter |-> "None", error |-> "none"]

NoReader ==
    [pc |-> "idle", context |-> NoArgs.context, view |-> EmptyCatalog, i |-> 0,
     available_tools |-> <<>>, error |-> "none", seen |-> {}]

Min(S) == CHOOSE x \in S : \A y \in S : x <= y

\* The value stored under a key of a well-formed input dict
ValueOf(key) == "<" \o key \o ">"

\* inputs.get that answers with the default whatever the dict holds
InputsGetDefault(inputs, key, default) ==
    CASE inputs.kind = "none" -> [kind |-> "raise", value |-> "AttributeError"]
      [] inputs.kind = "lazy" -> [kind |-> "raise", value |-> "TimeoutError"]
      [] OTHER -> [kind |-> "return", value |-> default]

\* inputs.get(key, default): a dict answers, None has no get, the remote
\* mapping raises a timeout error
InputsGet(inputs, key, default) ==
    CASE inputs.kind = "none" -> [kind |-> "raise", value |-> "AttributeError"]
      [] inputs.kind = "lazy" -> [kind |-> "raise", value |-> "TimeoutError"]
      [] OTHER -> [kind |-> "return",
                   value |-> IF key \in inputs.keys THEN ValueOf(key) ELSE default]

----------------------------------------------------------------------------
(* validate_tool_input, check_permissions *)

Valid == [kind |-> "valid", error |-> "none"]

\* validate_tool_input that reports the last missing parameter
validate_tool_input_last(registry, tool_name, inputs) ==
    IF tool_name \notin DOMAIN registry
    THEN [kind |-> "invalid", error |-> "Tool not found in registry"]
    ELSE LET required_params == Get(registry[tool_name], "required_params", <<>>)
             missing == {i \in 1..Len(required_params) :
                            required_params[i] \notin inputs.keys}
         IN  IF Len(required_params) = 0 THEN Valid
             ELSE IF inputs.kind = "none"
                  THEN [kind |-> "raise", error |-> "TypeError"]
             ELSE IF missing = {} THEN Valid
             ELSE [kind |-> "invalid",
                   error |-> "Missing required parameter: "
                                \o required_params[CHOOSE i \in missing :
                                                      \A j \in missing : j <= i]]

\* validate_tool_input that accepts every call
validate_tool_anything(registry, tool_name, inputs) == Valid

\* validate_tool_input without its loop over required_params
validate_tool_exists(registry, tool_name, inputs) ==
    IF tool_name \notin DOMAIN registry
    THEN [kind |-> "invalid", error |-> "Tool not found in registry"]
    ELSE Valid

validate_tool_input(registry, tool_name, inputs) ==
    IF tool_name \notin DOMAIN registry
    THEN [kind |-> "invalid", error |-> "Tool not found in registry"]
    ELSE LET tool_spec == registry[tool_name]
             required_params == Get(tool_spec, "required_params", <<>>)
             missing == {i \in 1..Len(required_params) :
                            required_params[i] \notin inputs.keys}
         IN  IF tool_spec = NullSpec
             THEN [kind |-> "raise", error |-> "AttributeError"]
             ELSE IF Len(required_params) = 0 THEN Valid
             ELSE IF inputs.kind = "none"
                  THEN [kind |-> "raise", error |-> "TypeError"]
             ELSE IF missing = {} THEN Valid
             ELSE [kind |-> "invalid",
                   error |-> "Missing required parameter: "
                                \o required_params[Min(missing)]]

\* permission_levels.get(level, default)
PermissionLevel(level, default) ==
    CASE level = "guest" -> 0
      [] level = "user"  -> 1
      [] level = "admin" -> 2
      [] OTHER -> default

\* check_permissions that grants every call
check_permissions_granted(registry, tool_name, context) == TRUE

\* check_permissions that only looks the tool up
check_permissions_lookup(registry, tool_name, context) ==
    tool_name \in DOMAIN registry

\* check_permissions with the caller's default rank raised to that of user
check_permissions_user_default(registry, tool_name, context) ==
    IF tool_name \notin DOMAIN registry THEN FALSE
    ELSE LET tool_spec == registry[tool_name]
             required_permission == Get(tool_spec, "required_permission", "user")
         IN  PermissionLevel(context.permission_level, 1)
                >= PermissionLevel(required_permission, 1)

check_permissions(registry, tool_name, context) ==
    IF tool_name \notin DOMAIN registry THEN FALSE
    ELSE LET tool_spec == registry[tool_name]
             required_permission == Get(tool_spec, "required_permission", "user")
         IN  PermissionLevel(context.permission_level, 0)
                >= PermissionLevel(required_permission, 1)

----------------------------------------------------------------------------
(* _execute_tool_impl: up to its first await, and after the sleep *)

ImplBegin(registry, tool_name, inputs) ==
    IF tool_name \notin DOMAIN registry
    THEN [kind |-> "raise", value |-> "KeyError", type |-> "none", sleep |-> 0]
    ELSE LET tool_type == Get(registry[tool_name], "type", "unknown")
             got == InputsGet(inputs, "message", "Hello from Primarch!")
         IN  CASE registry[tool_name] = NullSpec ->
                    [kind |-> "raise", value |-> "AttributeError", type |-> "none",
                     sleep |-> 0]
               [] tool_type = "web_search" ->
                    [kind |-> "sleep", value |-> "none", type |-> tool_type,
                     sleep |-> WebSearchSleep]
               [] tool_type = "asr" ->
                    [kind |-> "sleep", value |-> "none", type |-> tool_type,
                     sleep |-> AsrSleep]
               [] tool_type = "tts" ->
                    [kind |-> "sleep", value |-> "none", type |-> tool_type,
                     sleep |-> TtsSleep]
               [] tool_type = "echo" ->
                    [kind |-> got.kind, value |-> got.value, type |-> tool_type,
                     sleep |-> 0]
               [] OTHER ->
                    [kind |-> "raise", value |-> "NotImplementedError",
                     type |-> tool_type, sleep |-> 0]

ImplResume(tool_type, inputs) ==
    CASE tool_type = "web_search" -> InputsGet(inputs, "query", "")
      [] tool_type = "asr" -> [kind |-> "return", value |-> "transcript"]
      [] OTHER -> [kind |-> "return", value |-> "audio_url"]

----------------------------------------------------------------------------
(* The result execute_tool builds from what the awaited wait_for gave *)

\* The except clauses without the one for asyncio.TimeoutError
ExceptClauseGeneric(exception) == "failure"

\* An except clause that takes every exception for the deadline
ExceptClauseDeadline(exception) == "timeout"

ExceptClause(exception) ==
    IF exception = "TimeoutError" THEN "timeout" ELSE "failure"

DispatchResult(outcome, tool_name, context, time) ==
    IF outcome.kind = "return"
    THEN [ToolResult("success", outcome.value, "none", time)
             EXCEPT !.metadata = [tool_name |-> tool_name,
                                  session_id |-> context.session_id]]
    ELSE IF ExceptClause(outcome.value) = "timeout"
         THEN ToolResult("timeout", "none", "Tool execution timed out", time)
         ELSE ToolResult("failure", "none", outcome.value, time)

----------------------------------------------------------------------------
(* Metrics *)

CounterLabels == ToolNames \X Statuses \X Tenants
GaugeLabels == ToolNames \X Tenants

Inc(metric, label) == [metric EXCEPT ![label] = @ + 1]
Dec(metric, label) == [metric EXCEPT ![label] = @ - 1]

record_execution(tool_name, context, res) ==
    /\ tool_execution_counter' =
          Inc(tool_execution_counter, <<tool_name, res.status, context.tenant_id>>)
    /\ tool_execution_duration' =
          Inc(tool_execution_duration, <<tool_name, context.tenant_id>>)

\* execute_tool without the decrement of its scoped-release block
FinallyWithoutRelease(gauge, label) == gauge

\* The scoped-release block of execute_tool
Finally(gauge, label) == Dec(gauge, label)

----------------------------------------------------------------------------
(* Catalog loading *)

\* What open + yaml.safe_load find at registry_path
RegistrySources ==
    { [readable |-> TRUE,  tools |-> CatalogA],
      [readable |-> TRUE,  tools |-> CatalogB],
      [readable |-> FALSE, tools |-> EmptyCatalog] }

\* Files that parse and hold an entry that is no tool spec
MalformedSources ==
    { [readable |-> TRUE, tools |-> BrokenCatalog] }

\* The file the adapter is constructed on
InitialSource == [readable |-> TRUE, tools |-> CatalogA]

load_registry(source) == IF source.readable THEN source.tools ELSE EmptyCatalog

----------------------------------------------------------------------------
(* State machine *)

Init ==
    /\ tool_registry = load_registry(InitialSource)
    /\ loader = [source |-> InitialSource, at |-> 0, previous |-> EmptyCatalog,
                 unchanged |-> FALSE, across |-> [c \in Calls |-> 0],
                 replaced |-> {}]
    /\ now = 0
    /\ reader = [r \in Readers |-> NoReader]
    /\ health = <<>>
    /\ adapter_instance = "None"
    /\ getter = [g \in Getters |-> NoGetter]
    /\ REGISTRY = {}
    /\ reloads = 0
    /\ pc = [c \in Calls |-> "idle"]
    /\ args = [c \in Calls |-> NoArgs]
    /\ task = [c \in Calls |-> NoTask]
    /\ result = [c \in Calls |-> NoResult]
    /\ log = [c \in Calls |-> <<>>]
    /\ snapshot = [c \in Calls |-> EmptyCatalog]
    /\ tool_execution_counter = [l \in CounterLabels |-> 0]
    /\ tool_execution_duration = [l \in GaugeLabels |-> 0]
    /\ active_tools = [l \in GaugeLabels |-> 0]

\* A reload that drops the catalog when the file gives what is loaded already
reload_registry_dropping(source) ==
    /\ reloads' = reloads + 1
    /\ tool_registry' = IF load_registry(source) = tool_registry THEN EmptyCatalog
                        ELSE load_registry(source)
    /\ UNCHANGED <<pc, args, task, result, log, snapshot, tool_execution_counter,
                   tool_execution_duration, active_tools, now, health, globalVars>>

reload_registry(source) ==
    /\ reloads' = reloads + 1
    /\ tool_registry' = load_registry(source)
    /\ UNCHANGED <<pc, args, task, result, log, snapshot, tool_execution_counter,
                   tool_execution_duration, active_tools, now, health, globalVars>>

\* The adapter keeps no trace of its loads.  For the properties that speak of
\* them, a run of reload_registry is recorded: what it read, when, what it
\* replaced, whether the source was the one last loaded, through how many
\* such reloads each call of execute_tool has been awaiting (`across`), which
\* calls were awaiting when another source was loaded (`replaced`), and
\* which catalogs a listing in progress was exposed to.
Recorded(source) ==
    LET awaiting == {c \in Calls : pc[c] = "awaiting"}
        same == source = loader.source
    IN  /\ loader' = [source |-> source, at |-> now, previous |-> tool_registry,
                      unchanged |-> same,
                      across |-> [c \in Calls |->
                                    IF same /\ c \in awaiting
                                    THEN loader.across[c] + 1 ELSE loader.across[c]],
                      replaced |-> IF same THEN loader.replaced
                                   ELSE loader.replaced \cup awaiting]
        /\ reader' = [r \in Readers |->
                         IF reader[r].pc \in {"lookup", "compare"}
                         THEN [reader[r] EXCEPT !.seen = @ \cup {load_registry(source)}]
                         ELSE reader[r]]

\* execute_tool from its entry to its first suspension (the await of wait_for)
\* or, when the call is rejected or validation raises, to its exit
execute_tool(c, tool_name, inputs, context) ==
    LET label == <<tool_name, context.tenant_id>>
        entered == Inc(active_tools, label)
        v == validate_tool_input(tool_registry, tool_name, inputs)
        invalid == ToolResult("validation_error", "none", v.error, 0)
        denied == ToolResult("permission_denied", "none",
                             "Insufficient permissions for tool", 0)
    IN  /\ pc[c] = "idle"
        /\ args' = [args EXCEPT ![c] = [tool_name |-> tool_name, inputs |-> inputs,
                                        context |-> context]]
        /\ snapshot' = [snapshot EXCEPT ![c] = tool_registry]
        /\ UNCHANGED <<tool_registry, reloads, threadVars>>
        /\ CASE v.kind = "raise" ->
                  /\ pc' = [pc EXCEPT ![c] = "raised"]
                  /\ result' = [result EXCEPT ![c] =
                                   ToolResult("none", "none", v.error, 0)]
                  /\ log' = [log EXCEPT ![c] = <<"gauge_inc", "validate", "gauge_dec">>]
                  /\ active_tools' = Finally(entered, label)
                  /\ UNCHANGED <<task, tool_execution_counter, tool_execution_duration>>
             [] v.kind = "invalid" ->
                  /\ pc' = [pc EXCEPT ![c] = "done"]
                  /\ result' = [result EXCEPT ![c] = invalid]
                  /\ log' = [log EXCEPT ![c] =
                                <<"gauge_inc", "validate", "record", "gauge_dec">>]
                  /\ record_execution(tool_name, context, invalid)
                  /\ active_tools' = Finally(entered, label)
                  /\ UNCHANGED task
             [] v.kind = "valid"
                  /\ ~check_permissions(tool_registry, tool_name, context) ->
                  /\ pc' = [pc EXCEPT ![c] = "done"]
                  /\ result' = [result EXCEPT ![c] = denied]
                  /\ log' = [log EXCEPT ![c] =
                                <<"gauge_inc", "validate", "authorize", "record",
                                  "gauge_dec">>]
                  /\ record_execution(tool_name, context, denied)
                  /\ active_tools' = Finally(entered, label)
                  /\ UNCHANGED task
             [] OTHER ->
                  /\ pc' = [pc EXCEPT ![c] = "awaiting"]
                  /\ task' = [task EXCEPT ![c] =
                                 [state |-> "scheduled", type |-> "none", sleep |-> 0]]
                  /\ log' = [log EXCEPT ![c] =
                                <<"gauge_inc", "validate", "authorize", "dispatch">>]
                  /\ active_tools' = entered
                  /\ UNCHANGED <<result, tool_execution_counter,
                                 tool_execution_duration>>

\* execute_tool from the moment wait_for returns or raises to its return:
\* the result, the scoped release, the recording
Finish(c, outcome, time, task_state, events) ==
    LET a == args[c]
        res == DispatchResult(outcome, a.tool_name, a.context, time)
    IN  /\ pc' = [pc EXCEPT ![c] = "done"]
        /\ result' = [result EXCEPT ![c] = res]
        /\ task' = [task EXCEPT ![c].state = task_state]
        /\ log' = [log EXCEPT ![c] = @ \o events \o <<"gauge_dec", "record">>]
        /\ active_tools' = Finally(active_tools, <<a.tool_name, a.context.tenant_id>>)
        /\ record_execution(a.tool_name, a.context, res)
        /\ UNCHANGED <<tool_registry, reloads, args, snapshot, threadVars>>

\* The task wait_for created runs _execute_tool_impl up to its first await
ImplStart(c) ==
    LET a == args[c]
        b == ImplBegin(tool_registry, a.tool_name, a.inputs)
    IN  /\ pc[c] = "awaiting"
        /\ task[c].state = "scheduled"
        /\ a.context.max_execution_time > 0
        /\ IF b.kind = "sleep"
           THEN /\ task' = [task EXCEPT ![c] =
                               [state |-> "sleeping", type |-> b.type,
                                sleep |-> b.sleep]]
                /\ log' = [log EXCEPT ![c] = Append(@, "impl")]
                /\ UNCHANGED <<tool_registry, reloads, pc, args, result, snapshot,
                               tool_execution_counter, tool_execution_duration,
                               active_tools, threadVars>>
           ELSE Finish(c, [kind |-> b.kind, value |-> b.value], 0, "finished",
                       <<"impl">>)

\* The sleep of the task ends no later than the deadline: the task completes
CapabilityDone(c) ==
    /\ pc[c] = "awaiting"
    /\ task[c].state = "sleeping"
    /\ task[c].sleep <= Tenths(args[c].context.max_execution_time)
    /\ Finish(c, ImplResume(task[c].type, args[c].inputs), task[c].sleep,
              "finished", <<>>)

\* A deadline that reports the timeout from a timer callback and leaves
\* execute_tool awaiting the task, which is not cancelled
TimeoutFireUncancelled(c) ==
    LET a == args[c]
        deadline == a.context.max_execution_time
        res == DispatchResult([kind |-> "raise", value |-> "TimeoutError"],
                              a.tool_name, a.context, Tenths(deadline))
    IN  /\ pc[c] = "awaiting"
        /\ \/ deadline <= 0 /\ task[c].state = "scheduled"
           \/ task[c].state = "sleeping" /\ Tenths(deadline) <= task[c].sleep
        /\ result' = [result EXCEPT ![c] = res]
        /\ log' = [log EXCEPT ![c] = @ \o <<"deadline", "gauge_dec", "record">>]
        /\ active_tools' = Finally(active_tools, <<a.tool_name, a.context.tenant_id>>)
        /\ record_execution(a.tool_name, a.context, res)
        /\ UNCHANGED <<tool_registry, reloads, pc, args, task, snapshot, threadVars>>

\* The deadline of wait_for expires: the task is cancelled and wait_for
\* raises asyncio.TimeoutError
TimeoutFire(c) ==
    LET deadline == args[c].context.max_execution_time
    IN  /\ pc[c] = "awaiting"
        /\ \/ deadline <= 0 /\ task[c].state = "scheduled"
           \/ task[c].state = "sleeping" /\ Tenths(deadline) <= task[c].sleep
        /\ Finish(c, [kind |-> "raise", value |-> "TimeoutError"],
                  IF deadline <= 0 THEN 0 ELSE Tenths(deadline),
                  "cancelled", <<"deadline">>)

Next ==
    \/ /\ reloads < MaxReloads
       /\ \E source \in RegistrySources : reload_registry(source)
       /\ UNCHANGED <<loader, reader>>
    \/ \E c \in Calls, tool_name \in ToolNames, inputs \in InputBags,
          context \in Contexts : execute_tool(c, tool_name, inputs, context)
    \/ \E c \in Calls : ImplStart(c)
    \/ \E c \in Calls : CapabilityDone(c)
    \/ \E c \in Calls : TimeoutFire(c)

Spec == Init /\ [][Next]_vars

----------------------------------------------------------------------------
(* get_available_tools and get_tool_health, called from threads *)

\* The summary appended for a tool of the catalog being listed
Summary(view, tool_name) ==
    [name |-> tool_name, type |-> Get(view[tool_name], "type", "unknown")]

\* The body of the loop of get_available_tools without its if
SummariesUnfiltered(available, view, tool_name, allowed) ==
    Append(available, Summary(view, tool_name))

\* The body of the loop of get_available_tools
Summaries(available, view, tool_name, allowed) ==
    IF allowed THEN Append(available, Summary(view, tool_name)) ELSE available

\* get_available_tools run in one piece: what it gives on one catalog
available_tools(registry, context) ==
    LET items == Items(registry)
    IN  IF \E i \in 1..Len(items) : registry[items[i]] = NullSpec
        THEN [kind |-> "raise", value |-> "AttributeError", summaries |-> <<>>]
        ELSE [kind |-> "return", value |-> "none",
              summaries |->
                  [i \in 1..Len(SelectSeq(items,
                                  LAMBDA t : check_permissions(registry, t, context))) |->
                      Summary(registry,
                              SelectSeq(items,
                                  LAMBDA t : check_permissions(registry, t, context))[i])]]

\* The listing moves on to the next item, or returns
Advanced(rd, available) ==
    [rd EXCEPT !.available_tools = available,
               !.i = rd.i + 1,
               !.pc = IF rd.i >= Len(Items(rd.view)) THEN "done" ELSE "lookup"]

Raised(rd, exception) == [rd EXCEPT !.pc = "raised", !.error = exception]

\* get_available_tools starts: the iteration takes self.tool_registry.items()
get_available_tools(r, context) ==
    /\ reader[r].pc = "idle"
    /\ reader' = [reader EXCEPT ![r] =
                     [pc |-> IF Len(Items(tool_registry)) = 0 THEN "done"
                             ELSE "lookup",
                      context |-> context, view |-> tool_registry, i |-> 1,
                      available_tools |-> <<>>, error |-> "none",
                      seen |-> {tool_registry}]]
    /\ UNCHANGED <<adapterVars, loader, now, health, globalVars>>

\* check_permissions for the item the listing is at: the membership test
PermissionLookup(r) ==
    LET rd == reader[r]
        tool_name == Items(rd.view)[rd.i]
    IN  /\ rd.pc = "lookup"
        /\ reader' = [reader EXCEPT ![r] =
                         IF tool_name \in DOMAIN tool_registry
                         THEN [rd EXCEPT !.pc = "compare"]
                         ELSE Advanced(rd, rd.available_tools)]
        /\ UNCHANGED <<adapterVars, loader, now, health, globalVars>>

\* check_permissions for the item the listing is at: the tool spec is read
\* and the tiers compared; then the summary is appended
PermissionCompare(r) ==
    LET rd == reader[r]
        tool_name == Items(rd.view)[rd.i]
        allowed == check_permissions(tool_registry, tool_name, rd.context)
    IN  /\ rd.pc = "compare"
        /\ reader' = [reader EXCEPT ![r] =
                         IF tool_name \notin DOMAIN tool_registry
                         THEN Raised(rd, "KeyError")
                         ELSE IF tool_registry[tool_name] = NullSpec
                         THEN Raised(rd, "AttributeError")
                         ELSE IF allowed /\ rd.view[tool_name] = NullSpec
                         THEN Raised(rd, "AttributeError")
                         ELSE Advanced(rd, Summaries(rd.available_tools, rd.view,
                                                     tool_name, allowed))]
        /\ UNCHANGED <<adapterVars, loader, now, health, globalVars>>

\* Reloads and listings, each read of self.tool_registry a step
ThreadNext ==
    \/ /\ reloads < MaxReloads
       /\ \E source \in RegistrySources \cup MalformedSources :
             reload_registry(source) /\ Recorded(source)
    \/ \E r \in Readers, context \in ReaderContexts : get_available_tools(r, context)
    \/ \E r \in Readers : PermissionLookup(r)
    \/ \E r \in Readers : PermissionCompare(r)

ThreadSpec == Init /\ [][ThreadNext]_vars

\* A get_tool_health that loads the registry file anew, the file unreadable
get_tool_health_loading ==
    /\ Len(health) < MaxHealth
    /\ health' = Append(health,
                        [status |-> "healthy",
                         tools_loaded |-> Cardinality(DOMAIN tool_registry),
                         last_reload |-> now,
                         loads |-> reloads, loaded_at |-> loader.at])
    /\ tool_registry' = EmptyCatalog
    /\ UNCHANGED <<reloads, pc, args, task, result, log, snapshot,
                   tool_execution_counter, tool_execution_duration, active_tools,
                   loader, now, reader, globalVars>>

\* get_tool_health.  Kept beside each dict returned, for the properties: the
\* number of reloads made, and the time of the last load, when it was built.
get_tool_health ==
    /\ Len(health) < MaxHealth
    /\ health' = Append(health,
                        [status |-> "healthy",
                         tools_loaded |-> Cardinality(DOMAIN tool_registry),
                         last_reload |-> now,
                         loads |-> reloads, loaded_at |-> loader.at])
    /\ UNCHANGED <<adapterVars, loader, now, reader, globalVars>>

\* Time passes
Tick ==
    /\ now < MaxNow
    /\ now' = now + 1
    /\ UNCHANGED <<adapterVars, loader, reader, health, globalVars>>

HealthNext ==
    \/ /\ reloads < MaxLoads
       /\ \E source \in RegistrySources \cup MalformedSources :
             reload_registry(source) /\ Recorded(source)
    \/ get_tool_health
    \/ Tick

HealthSpec == Init /\ [][HealthNext]_vars

\* One call of execute_tool on the event loop, with a listing and health
\* checks made from threads meanwhile
ReadNext ==
    \/ \E tool_name \in ToolNames, inputs \in InputBags, context \in Contexts :
          execute_tool("c1", tool_name, inputs, context)
    \/ ImplStart("c1")
    \/ CapabilityDone("c1")
    \/ TimeoutFire("c1")
    \/ \E context \in ReaderContexts : get_available_tools("r1", context)
    \/ PermissionLookup("r1")
    \/ PermissionCompare("r1")
    \/ get_tool_health

ReadSpec == Init /\ [][ReadNext]_vars

----------------------------------------------------------------------------
(* get_adapter and execute_tool_safe, called from threads.  The adapter     *)
(* variables above are those of the instance that becomes adapter_instance. *)

\* The call of execute_tool a thread makes once it holds the adapter
CallOf == [g \in Getters |-> IF g = "g1" THEN "c1" ELSE "c2"]

\* get_adapter: the test of the global (line 305)
get_adapter(g) ==
    /\ getter[g].pc = "idle"
    /\ getter' = [getter EXCEPT ![g].pc =
                     IF adapter_instance = "None" THEN "init" ELSE "return"]
    /\ UNCHANGED <<adapterVars, loader, now, reader, health, adapter_instance,
                   REGISTRY>>

\* ToolAdapter.__init__: the next of its three metrics is created and
\* registered; the default registry refuses a name it already holds
Register(g) ==
    LET name == MetricNames[getter[g].registered + 1]
    IN  /\ getter[g].pc = "init"
        /\ IF name \in REGISTRY
           THEN /\ getter' = [getter EXCEPT ![g].pc = "raised",
                                            ![g].error = "ValueError"]
                /\ UNCHANGED REGISTRY
           ELSE /\ REGISTRY' = REGISTRY \cup {name}
                /\ getter' = [getter EXCEPT
                                 ![g].registered = @ + 1,
                                 ![g].pc = IF getter[g].registered + 1 = Len(MetricNames)
                                           THEN "load" ELSE "init"]
        /\ UNCHANGED <<adapterVars, loader, now, reader, health, adapter_instance>>

\* ToolAdapter.__init__ loads the registry; the new adapter is stored in
\* the global (line 306)
Assign(g) ==
    /\ getter[g].pc = "load"
    /\ tool_registry' = load_registry(InitialSource)
    /\ adapter_instance' = g
    /\ getter' = [getter EXCEPT ![g].pc = "return"]
    /\ UNCHANGED <<reloads, pc, args, task, result, log, snapshot,
                   tool_execution_counter, tool_execution_duration, active_tools,
                   loader, now, reader, health, REGISTRY>>

\* get_adapter returns the global (line 307)
Return(g) ==
    /\ getter[g].pc = "return"
    /\ getter' = [getter EXCEPT ![g].pc = "returned", ![g].adapter = adapter_instance]
    /\ UNCHANGED <<adapterVars, loader, now, reader, health, adapter_instance,
                   REGISTRY>>

\* What get_adapter gave the thread
GetterOutcome(g) ==
    IF getter[g].pc = "raised"
    THEN [kind |-> "raise", value |-> getter[g].error]
    ELSE [kind |-> "return", value |-> getter[g].adapter]

\* What the awaited execute_tool gave the thread
CallOutcome(c) ==
    IF pc[c] = "raised"
    THEN [kind |-> "raise", value |-> result[c].error, result |-> NoResult]
    ELSE [kind |-> "return", value |-> "none", result |-> result[c]]

\* execute_tool_safe without its except clause
execute_tool_unsafe(adapter, outcome) == outcome.result

\* execute_tool_safe: the ToolResult it returns, given what get_adapter and
\* the awaited execute_tool gave
execute_tool_safe(adapter, outcome) ==
    IF adapter.kind = "raise"
    THEN ToolResult("failure", "none", "Adapter error: " \o adapter.value, 0)
    ELSE IF outcome.kind = "raise"
    THEN ToolResult("failure", "none", "Adapter error: " \o outcome.value, 0)
    ELSE outcome.result

\* Threads that call execute_tool_safe when no adapter exists yet
SingletonNext ==
    \/ \E g \in Getters : get_adapter(g)
    \/ \E g \in Getters : Register(g)
    \/ \E g \in Getters : Assign(g)
    \/ \E g \in Getters : Return(g)
    \/ \E g \in Getters, tool_name \in ToolNames, inputs \in InputBags,
          context \in Contexts :
          /\ getter[g].pc = "returned"
          /\ execute_tool(CallOf[g], tool_name, inputs, context)
    \/ \E c \in Calls : ImplStart(c)
    \/ \E c \in Calls : CapabilityDone(c)
    \/ \E c \in Calls : TimeoutFire(c)

SingletonSpec == Init /\ [][SingletonNext]_vars

\* One call of execute_tool, followed through several reloads
SoloNext ==
    \/ /\ reloads < MaxLoads
       /\ \E source \in RegistrySources : reload_registry(source) /\ Recorded(source)
    \/ \E tool_name \in ToolNames, inputs \in InputBags \cup MessageBags,
          context \in Contexts : execute_tool("c1", tool_name, inputs, context)
    \/ ImplStart("c1")
    \/ CapabilityDone("c1")
    \/ TimeoutFire("c1")

SoloSpec == Init /\ [][SoloNext]_vars

\* The event loop runs every task that is ready and fires every timer that
\* is due: the task wait_for created takes its first step, a sleep that has
\* run its time ends, a deadline that has passed expires.
FairSpec ==
    /\ Spec
    /\ \A c \in Calls :
          /\ WF_vars(ImplStart(c))
          /\ WF_vars(CapabilityDone(c))
          /\ WF_vars(TimeoutFire(c))

----------------------------------------------------------------------------
(* Vocabulary of the properties *)

Entered(c) == pc[c] # "idle"
Finished(c) == pc[c] \in {"done", "raised"}
Dispatched(c) == Count(log[c], "dispatch") > 0
Invoked(c) == Count(log[c], "impl") > 0
LabelOf(c) == <<args[c].tool_name, args[c].context.tenant_id>>
KnownTool(c) == args[c].tool_name \in DOMAIN snapshot[c]
SpecOf(c) == snapshot[c][args[c].tool_name]
RequiredOf(c) == Get(SpecOf(c), "required_params", <<>>)

\* Some required parameter of the tool is no key of the inputs
LacksRequired(c) ==
    \E i \in 1..Len(RequiredOf(c)) : RequiredOf(c)[i] \notin args[c].inputs.keys

\* Position of the first occurrence of an event in a log, 0 when absent
Position(s, e) ==
    IF Count(s, e) = 0 THEN 0 ELSE Min({i \in 1..Len(s) : s[i] = e})

RECURSIVE Total(_, _)
Total(metric, labels) ==
    IF labels = {} THEN 0
    ELSE LET l == CHOOSE x \in labels : TRUE
         IN  metric[l] + Total(metric, labels \ {l})

----------------------------------------------------------------------------
\* C1: a call on a tool of the catalog whose inputs (a mapping) lack a
\* required parameter of the tool returns validation_error, and
\* _execute_tool_impl is never run for a call that lacks one.
C1_MissingParamRejected ==
    \A c \in Calls :
        (Entered(c) /\ KnownTool(c) /\ LacksRequired(c)) =>
            /\ ~Dispatched(c) /\ ~Invoked(c) /\ task[c] = NoTask
            /\ args[c].inputs.kind # "none" =>
                  /\ pc[c] = "done"
                  /\ result[c].status = "validation_error"

C1_Witness ==
    \E c \in Calls :
        /\ pc[c] = "done"
        /\ args[c].tool_name = "search"
        /\ args[c].inputs = [kind |-> "dict", keys |-> {}]
        /\ args[c].context.permission_level = "admin"
        /\ result[c].status = "validation_error"
        /\ result[c].error = "Missing required parameter: query"

\* Rank of a tier: guest 0, user 1, admin 2, any other string `unrecognized`
TierRank(tier, unrecognized) ==
    IF tier = "guest" THEN 0
    ELSE IF tier = "user" THEN 1
    ELSE IF tier = "admin" THEN 2
    ELSE unrecognized

RequiredTierOf(c) == Get(SpecOf(c), "required_permission", "user")
CallerTierOf(c) == args[c].context.permission_level

\* The permission check of the call was evaluated (its validation passed)
Authorizing(c) == Count(log[c], "authorize") > 0

----------------------------------------------------------------------------
\* C2 as stated: a call on a known tool whose caller ranks strictly below
\* the tool's required tier returns permission_denied whatever the inputs
\* are, and _execute_tool_impl is not run.
C2_DeniedWhateverInputs ==
    \A c \in Calls :
        (Entered(c) /\ KnownTool(c)
            /\ TierRank(CallerTierOf(c), 1) < TierRank(RequiredTierOf(c), 1)) =>
            /\ pc[c] = "done"
            /\ result[c].status = "permission_denied"
            /\ ~Invoked(c)

\* C2 amended: a call on a known tool whose inputs hold every required
\* parameter and whose caller ranks strictly below the tool's required tier
\* (as check_permissions ranks them) returns permission_denied, and
\* _execute_tool_impl is not run.
C2_DeniedWhenValid ==
    \A c \in Calls :
        (Entered(c) /\ KnownTool(c) /\ ~LacksRequired(c)
            /\ TierRank(CallerTierOf(c), 0) < TierRank(RequiredTierOf(c), 1)) =>
            /\ pc[c] = "done"
            /\ result[c].status = "permission_denied"
            /\ ~Dispatched(c) /\ ~Invoked(c) /\ task[c] = NoTask

C2_Witness ==
    \E c \in Calls :
        /\ pc[c] = "done"
        /\ args[c].tool_name = "search"
        /\ args[c].inputs = [kind |-> "dict", keys |-> {"query"}]
        /\ CallerTierOf(c) = "guest"
        /\ result[c].status = "permission_denied"

----------------------------------------------------------------------------
\* C3: execute_tool never raises; every call that has ended returned a
\* ToolResult whose status is one of the five members of the enumeration.
C3_NeverRaises ==
    \A c \in Calls :
        Finished(c) => (pc[c] = "done" /\ result[c].status \in Statuses)

----------------------------------------------------------------------------
\* C4: every call that has ended, on whatever exit path, has emitted exactly
\* one counter increment and one latency observation, the counter's status
\* label is the status returned, and the increments of N ended calls total N.
C4_OneEmissionPerCall ==
    LET ended == {c \in Calls : Finished(c)}
    IN  /\ \A c \in ended :
              /\ Count(log[c], "record") = 1
              /\ tool_execution_counter[<<args[c].tool_name, result[c].status,
                                          args[c].context.tenant_id>>] >= 1
        /\ Total(tool_execution_counter, CounterLabels) = Cardinality(ended)
        /\ Total(tool_execution_duration, GaugeLabels) = Cardinality(ended)

----------------------------------------------------------------------------
\* C5: for every (tool_name, tenant_id) the in-flight gauge is the number of
\* calls with these labels that have entered execute_tool and not left it;
\* a call increments it once, decrements it once on every exit path, and it
\* is never negative.
C5_GaugeCountsInFlight ==
    /\ \A l \in GaugeLabels :
          /\ active_tools[l] = Cardinality({c \in Calls :
                                               pc[c] = "awaiting" /\ LabelOf(c) = l})
          /\ active_tools[l] >= 0
    /\ \A c \in Calls :
          /\ Entered(c) => Count(log[c], "gauge_inc") = 1
          /\ Count(log[c], "gauge_dec") = IF Finished(c) THEN 1 ELSE 0

C5_Witness ==
    \E c, d \in Calls :
        /\ c # d /\ LabelOf(c) = LabelOf(d)
        /\ pc[c] = "done" /\ result[c].status = "success"
        /\ pc[d] = "awaiting"
        /\ active_tools[LabelOf(c)] = 1

----------------------------------------------------------------------------
\* C6: a dispatched call whose task has not completed when
\* max_execution_time has elapsed since dispatch returns timeout at the
\* deadline, with one outcome recorded; no dispatched call returns later
\* than its deadline.
C6_TimeoutAtDeadline ==
    \A c \in Calls :
        LET deadline == Tenths(args[c].context.max_execution_time)
        IN  Dispatched(c) =>
              /\ task[c].state = "cancelled" =>
                    /\ pc[c] = "done"
                    /\ result[c].status = "timeout"
                    /\ result[c].execution_time = deadline
                    /\ Count(log[c], "record") = 1
              /\ (pc[c] = "done" /\ (deadline <= 0 \/ task[c].sleep > deadline)) =>
                    result[c].status = "timeout"
              /\ pc[c] = "done" => result[c].execution_time <= deadline

C6_Witness ==
    \E c \in Calls :
        /\ pc[c] = "done"
        /\ args[c].context.max_execution_time = 1
        /\ task[c] = [state |-> "cancelled", type |-> "asr", sleep |-> AsrSleep]
        /\ result[c].status = "timeout"
        /\ result[c].execution_time = 10

----------------------------------------------------------------------------
\* C7: once a call has produced a timeout result, no later step changes
\* that result, adds an event of that call or touches its task, and every
\* later change of the counter, the histogram and the gauge under the
\* call's labels is the emission of another call.
SameLabelsAfter(c, d) ==
    /\ args'[d].tool_name = args[c].tool_name
    /\ args'[d].context.tenant_id = args[c].context.tenant_id

OthersReturning(c, statuses) ==
    {d \in Calls \ {c} :
        /\ result'[d] # result[d]
        /\ result'[d].status \in statuses
        /\ SameLabelsAfter(c, d)}

OthersInFlight(c) ==
    {d \in Calls \ {c} : pc[d] = "awaiting" /\ LabelOf(d) = LabelOf(c)}

OthersInFlightAfter(c) ==
    {d \in Calls \ {c} : pc'[d] = "awaiting" /\ SameLabelsAfter(c, d)}

C7_LateCompletionDiscarded ==
    [][ \A c \in Calls :
            result[c].status = "timeout" =>
                LET timeouts == <<args[c].tool_name, "timeout",
                                  args[c].context.tenant_id>>
                IN  /\ pc[c] = "done"
                    /\ task[c].state \in {"cancelled", "finished"}
                    /\ pc'[c] = pc[c]
                    /\ result'[c] = result[c]
                    /\ log'[c] = log[c]
                    /\ task'[c] = task[c]
                    /\ tool_execution_counter'[timeouts] =
                          tool_execution_counter[timeouts]
                            + Cardinality(OthersReturning(c, {"timeout"}))
                    /\ tool_execution_duration'[LabelOf(c)] =
                          tool_execution_duration[LabelOf(c)]
                            + Cardinality(OthersReturning(c, Statuses))
                    /\ active_tools'[LabelOf(c)] - active_tools[LabelOf(c)] =
                          Cardinality(OthersInFlightAfter(c))
                            - Cardinality(OthersInFlight(c)) ]_vars

C7_Witness ==
    \E c, d \in Calls :
        /\ c # d
        /\ pc[c] = "done" /\ result[c].status = "timeout"
        /\ task[c] = [state |-> "cancelled", type |-> "asr", sleep |-> AsrSleep]
        /\ Count(log[c], "record") = 1
        /\ pc[d] = "done" /\ result[d].status = "success"
        /\ LabelOf(d) = LabelOf(c)
        /\ tool_execution_counter[<<args[c].tool_name, "timeout",
                                    args[c].context.tenant_id>>] = 1

----------------------------------------------------------------------------
\* C8: a dispatched call ends with status timeout only if its deadline
\* expired before the task completed; a task that raised an error before
\* the deadline, of whatever type, ends the call with status failure.
C8_TimeoutOnlyByDeadline ==
    \A c \in Calls :
        pc[c] = "done" =>
            /\ result[c].status = "timeout" =>
                  (task[c].state = "cancelled" /\ Count(log[c], "deadline") = 1)
            /\ (task[c].state = "finished" /\ result[c].status # "success") =>
                  result[c].status = "failure"

----------------------------------------------------------------------------
----------------------------------------------------------------------------
\* C10: in every call that returned a result the events are in the order
\* gauge increment, validation, outcome recording, gauge decrement: the
\* decrement never precedes the recording.
C10_RecordBeforeRelease ==
    \A c \in Calls :
        pc[c] = "done" =>
            /\ Position(log[c], "gauge_inc") = 1
            /\ Position(log[c], "validate") > Position(log[c], "gauge_inc")
            /\ Position(log[c], "record") > Position(log[c], "validate")
            /\ Position(log[c], "gauge_dec") > Position(log[c], "record")

----------------------------------------------------------------------------
\* The results the catalog a call was validated on determines for its
\* dispatch: those of the capability of the tool's type in that catalog,
\* against the deadline of the call.
SnapshotOutcomes(c) ==
    LET a == args[c]
        deadline == a.context.max_execution_time
        b == ImplBegin(snapshot[c], a.tool_name, a.inputs)
        timed_out == DispatchResult([kind |-> "raise", value |-> "TimeoutError"],
                                    a.tool_name, a.context,
                                    IF deadline <= 0 THEN 0 ELSE Tenths(deadline))
    IN  IF deadline <= 0 THEN {timed_out}
        ELSE IF b.kind = "sleep"
        THEN (IF b.sleep <= Tenths(deadline)
              THEN {DispatchResult(ImplResume(b.type, a.inputs), a.tool_name,
                                   a.context, b.sleep)}
              ELSE {})
             \cup (IF Tenths(deadline) <= b.sleep THEN {timed_out} ELSE {})
        ELSE {DispatchResult([kind |-> b.kind, value |-> b.value], a.tool_name,
                             a.context, 0)}

\* C11: validation, permission check and dispatch of one call use the tool
\* spec of one catalog snapshot: whatever reloads happen while the call is
\* in progress, the result of a dispatched call is one that the catalog it
\* was validated on determines.
C11_OneSnapshotPerCall ==
    \A c \in Calls :
        (pc[c] = "done" /\ Dispatched(c)) => result[c] \in SnapshotOutcomes(c)

----------------------------------------------------------------------------
\* What a call of get_available_tools that has ended gave its caller
ReaderOutcome(r) ==
    IF reader[r].pc = "raised"
    THEN [kind |-> "raise", value |-> reader[r].error, summaries |-> <<>>]
    ELSE [kind |-> "return", value |-> "none",
          summaries |-> reader[r].available_tools]

ReaderEnded(r) == reader[r].pc \in {"done", "raised"}

\* C12: a call of get_available_tools (with the check_permissions it makes)
\* that ran while reload_registry replaced the catalog gives what it would
\* give on one of the catalogs that were active during the call, in full:
\* never names of one catalog filtered by the permissions of another.
C12_ReadersSeeOneCatalog ==
    \A r \in Readers :
        ReaderEnded(r) =>
            \E registry \in reader[r].seen :
                ReaderOutcome(r) = available_tools(registry, reader[r].context)

----------------------------------------------------------------------------
\* C13: _execute_tool_impl is started, and a call ends in success, failure
\* or timeout, only after the validation and then the authorization of that
\* same call have passed: its tool is in the catalog, its inputs hold every
\* required parameter and its caller's tier ranks at least the required one.
C13_RunsOnlyAfterBothPass ==
    \A c \in Calls :
        (\/ Invoked(c)
         \/ task[c] # NoTask
         \/ result[c].status \in {"success", "failure", "timeout"}) =>
            /\ KnownTool(c)
            /\ ~LacksRequired(c)
            /\ TierRank(CallerTierOf(c), 0) >= TierRank(RequiredTierOf(c), 1)
            /\ 0 < Position(log[c], "validate")
            /\ Position(log[c], "validate") < Position(log[c], "authorize")
            /\ Position(log[c], "authorize") < Position(log[c], "dispatch")
            /\ Invoked(c) => Position(log[c], "dispatch") < Position(log[c], "impl")

C13_Witness ==
    \E c \in Calls :
        /\ pc[c] = "done"
        /\ result[c].status = "success"
        /\ log[c] = <<"gauge_inc", "validate", "authorize", "dispatch", "impl",
                      "gauge_dec", "record">>

----------------------------------------------------------------------------
\* C14: a call on a tool name absent from the catalog returns, for any
\* inputs and any context, validation_error with the "not found" message;
\* check_permissions is false for that name; _execute_tool_impl is not run.
C14_UnknownToolNotFound ==
    \A c \in Calls :
        (Entered(c) /\ ~KnownTool(c)) =>
            /\ pc[c] = "done"
            /\ result[c].status = "validation_error"
            /\ result[c].error = "Tool not found in registry"
            /\ ~check_permissions(snapshot[c], args[c].tool_name, args[c].context)
            /\ ~Dispatched(c) /\ ~Invoked(c) /\ task[c] = NoTask

C14_Witness ==
    \E c \in Calls :
        /\ pc[c] = "done"
        /\ args[c].tool_name = "ghost"
        /\ args[c].inputs.kind = "none"
        /\ CallerTierOf(c) = "admin"
        /\ result[c].status = "validation_error"
        /\ result[c].error = "Tool not found in registry"

----------------------------------------------------------------------------
\* C15: every call of execute_tool that was started eventually returns a
\* result, and the in-flight gauge of its labels is back at the value it had
\* before the call: with no call in flight it is zero again.
C15_EveryCallReturns ==
    /\ \A c \in Calls : Entered(c) ~> (pc[c] = "done")
    /\ \A l \in GaugeLabels : []<>(active_tools[l] = 0)

----------------------------------------------------------------------------
\* The tools of a catalog whose required tier the tier of a context reaches
AllowedNames(registry, context) ==
    {t \in DOMAIN registry :
        TierRank(context.permission_level, 0)
            >= TierRank(Get(registry[t], "required_permission", "user"), 1)}

\* The listing ran on one catalog and returned
ListedOn(r, registry) ==
    /\ reader[r].pc = "done"
    /\ reader[r].view = registry
    /\ reader[r].seen = {registry}

\* C16: on a fixed catalog and context get_available_tools returns, as a
\* set of names, exactly the tools of the catalog the context is permitted,
\* each once, and two calls with the same catalog and context return the
\* same list.
C16_ListsThePermittedTools ==
    \A r \in Readers :
        ListedOn(r, reader[r].view) =>
            LET listed == reader[r].available_tools
                permitted == AllowedNames(reader[r].view, reader[r].context)
            IN  /\ {listed[i].name : i \in 1..Len(listed)} = permitted
                /\ Len(listed) = Cardinality(permitted)
                /\ \A q \in Readers :
                      (ListedOn(q, reader[r].view)
                          /\ reader[q].context = reader[r].context) =>
                         reader[q].available_tools = listed

C16_Witness ==
    /\ \A r \in Readers :
          /\ ListedOn(r, CatalogA)
          /\ reader[r].context.permission_level = "user"
    /\ reader["r1"].available_tools =
          << [name |-> "search", type |-> "web_search"],
             [name |-> "echo", type |-> "echo"],
             [name |-> "legacy", type |-> "unknown"] >>

----------------------------------------------------------------------------
\* The file held a catalog: it could be read and each entry is a tool spec
WellFormed(source) ==
    /\ source.readable
    /\ \A t \in DOMAIN source.tools : source.tools[t] # NullSpec

\* C17: after a load of a source that is missing, unparsable or malformed
\* the active catalog is empty or the catalog that was active before, and
\* get_available_tools, run on the active catalog, returns.
C17_FailedLoadFallsBack ==
    /\ ~WellFormed(loader.source) =>
          tool_registry \in {EmptyCatalog, loader.previous}
    /\ \A r \in Readers :
          (reader[r].pc = "raised" /\ reader[r].seen = {reader[r].view}) =>
             WellFormed(loader.source)

----------------------------------------------------------------------------
\* C18: a reload from the source that was last loaded leaves the effective
\* catalog what it was, as often as it is called, and a call of execute_tool
\* that was awaiting across such reloads only returns a result that the
\* catalog it was validated on determines, as it does without reloads.
C18_ReloadIdempotent ==
    /\ loader.unchanged => tool_registry = loader.previous
    /\ \A c \in Calls :
          (pc[c] = "done" /\ Dispatched(c) /\ c \notin loader.replaced) =>
             result[c] \in SnapshotOutcomes(c)

C18_Witness ==
    /\ reloads = 2
    /\ loader.source = InitialSource /\ loader.unchanged
    /\ loader.across["c1"] = 2
    /\ tool_registry = CatalogA
    /\ pc["c1"] = "done" /\ result["c1"].status = "success"

----------------------------------------------------------------------------
\* C19: in every dict get_tool_health returned, last_reload is the time of
\* the most recent load at that moment, so two dicts built with no reload
\* between them carry the same last_reload; and tools_loaded is the number
\* of tools of the active catalog.
C19_HealthReportsLastLoad ==
    \A i \in 1..Len(health) :
        /\ health[i].last_reload = health[i].loaded_at
        /\ health[i].loads = reloads =>
              health[i].tools_loaded = Cardinality(DOMAIN tool_registry)
        /\ \A j \in 1..Len(health) :
              health[j].loads = health[i].loads =>
                 health[j].last_reload = health[i].last_reload

----------------------------------------------------------------------------
\* C20: in every result execute_tool returned the error message is present
\* iff the status is not success, and the data is absent when the status is
\* validation_error or permission_denied (data is present only on success).
C20_ResultWellFormed ==
    \A c \in Calls :
        pc[c] = "done" =>
            /\ result[c].error # "none" <=> result[c].status # "success"
            /\ result[c].status \in {"validation_error", "permission_denied"} =>
                  result[c].data = "none"
            /\ result[c].data # "none" => result[c].status = "success"

C20_Witness ==
    \E c, d \in Calls :
        /\ pc[c] = "done" /\ result[c].status = "failure"
        /\ result[c].error = "NotImplementedError" /\ result[c].data = "none"
        /\ pc[d] = "done" /\ result[d].status = "success"
        /\ result[d].error = "none" /\ result[d].data = "Hello from Primarch!"

----------------------------------------------------------------------------
\* C21: a dispatched call reports failure only after the capability was
\* invoked again: a call that returned failure has started
\* _execute_tool_impl at least twice.
C21_RetriesBeforeFailure ==
    \A c \in Calls :
        (pc[c] = "done" /\ result[c].status = "failure") =>
            Count(log[c], "impl") >= 2

----------------------------------------------------------------------------
\* C22: the executions a tenant has dispatched at one time are bounded
\* below the number of calls it makes: of the calls of one tenant some are
\* rejected or delayed and not all are dispatched together.
C22_DispatchesBounded ==
    \A tenant \in Tenants :
        Cardinality({c \in Calls : /\ pc[c] = "awaiting"
                                   /\ args[c].context.tenant_id = tenant})
            < Cardinality(Calls)

----------------------------------------------------------------------------
\* C23: the permission check of a call is evaluated only if its validation
\* passed: a call that misses a required parameter and whose tier is too low
\* returns validation_error, and permission_denied is returned only to
\* calls on a known tool whose inputs hold every required parameter.
C23_ValidationDecidedFirst ==
    \A c \in Calls :
        /\ Authorizing(c) =>
              /\ KnownTool(c) /\ ~LacksRequired(c)
              /\ Position(log[c], "validate") < Position(log[c], "authorize")
        /\ (pc[c] = "done" /\ result[c].status = "permission_denied") =>
              Authorizing(c)
        /\ (pc[c] = "done" /\ KnownTool(c) /\ LacksRequired(c)
                /\ TierRank(CallerTierOf(c), 0) < TierRank(RequiredTierOf(c), 1)) =>
              (result[c].status = "validation_error" /\ ~Authorizing(c))

C23_Witness ==
    \E c \in Calls :
        /\ pc[c] = "done"
        /\ args[c].tool_name = "vault" /\ snapshot[c] = CatalogA
        /\ CallerTierOf(c) = "guest"
        /\ result[c].status = "permission_denied"
        /\ \E d \in Calls :
              /\ pc[d] = "done"
              /\ args[d].tool_name = "search" /\ snapshot[d] = CatalogA
              /\ args[d].inputs = [kind |-> "dict", keys |-> {}]
              /\ CallerTierOf(d) = "guest"
              /\ result[d].status = "validation_error"
              /\ log[d] = <<"gauge_inc", "validate", "record", "gauge_dec">>

----------------------------------------------------------------------------
\* The required parameters of the tool that the inputs do not hold, by
\* their place in the declaration
MissingOf(c) ==
    {i \in 1..Len(RequiredOf(c)) : RequiredOf(c)[i] \notin args[c].inputs.keys}

\* C24: for a known tool and inputs that are a mapping, validation passes
\* iff every required parameter is a key of the inputs; otherwise the error
\* names the first missing parameter in the order of the declaration, and
\* two calls with the same tool spec and inputs get the same message.
C24_FirstMissingReported ==
    \A c \in Calls :
        (Entered(c) /\ KnownTool(c) /\ args[c].inputs.kind # "none") =>
            /\ MissingOf(c) = {} <=> Authorizing(c)
            /\ MissingOf(c) # {} =>
                  /\ pc[c] = "done"
                  /\ result[c].status = "validation_error"
                  /\ result[c].error =
                        "Missing required parameter: "
                            \o RequiredOf(c)[Min(MissingOf(c))]
                  /\ \A d \in Calls :
                        (Entered(d) /\ KnownTool(d) /\ SpecOf(d) = SpecOf(c)
                            /\ args[d].inputs = args[c].inputs) =>
                           result[d].error = result[c].error

C24_Witness ==
    \E c, d \in Calls :
        /\ pc[c] = "done" /\ pc[d] = "done"
        /\ snapshot[c] = CatalogB /\ snapshot[d] = CatalogB
        /\ args[c].tool_name = "search" /\ args[d].tool_name = "search"
        /\ args[c].inputs = [kind |-> "dict", keys |-> {}]
        /\ args[d].inputs = [kind |-> "lazy", keys |-> {"query"}]
        /\ result[c].error = "Missing required parameter: query"
        /\ result[d].error = "Missing required parameter: limit"

----------------------------------------------------------------------------
\* The tool types _execute_tool_impl has a branch for
BoundTypes == {"web_search", "asr", "tts", "echo"}

\* The call starts its capability in this step
Starting(c) == Count(log[c], "impl") = 0 /\ Count(log'[c], "impl") = 1

\* C25 as stated: every validated, authorized call on a tool whose declared
\* type is bound to no capability (or is missing) returns failure with the
\* not-implemented error, with exactly one recorded outcome, and does not
\* raise.
C25_UnboundTypeAlwaysFails ==
    \A c \in Calls :
        (Finished(c) /\ Dispatched(c) /\ KnownTool(c)
            /\ Get(SpecOf(c), "type", "unknown") \notin BoundTypes) =>
            /\ pc[c] = "done"
            /\ result[c].status = "failure"
            /\ result[c].error = "NotImplementedError"
            /\ Count(log[c], "record") = 1

\* C25 amended: when a call starts its capability while the active catalog
\* declares for the tool a type bound to no capability (or none), that
\* step returns failure with the not-implemented error, records exactly
\* one outcome, under status failure, and the call does not raise.
C25_UnboundTypeFails ==
    [][\A c \in Calls :
          (/\ Starting(c)
           /\ args[c].tool_name \in DOMAIN tool_registry
           /\ Get(tool_registry[args[c].tool_name], "type", "unknown")
                  \notin BoundTypes) =>
             /\ pc'[c] = "done"
             /\ result'[c].status = "failure"
             /\ result'[c].error = "NotImplementedError"
             /\ Count(log'[c], "record") = 1
             /\ tool_execution_counter' =
                   Inc(tool_execution_counter,
                       <<args[c].tool_name, "failure", args[c].context.tenant_id>>)
      ]_vars

C25_Witness ==
    \E c \in Calls :
        /\ pc[c] = "done"
        /\ args[c].tool_name = "legacy"
        /\ args[c].context.max_execution_time = 1
        /\ Invoked(c)
        /\ result[c].status = "failure"
        /\ result[c].error = "NotImplementedError"
        /\ tool_execution_counter[<<"legacy", "failure", "acme">>] = 1

----------------------------------------------------------------------------
\* C26: the deadline runs from the dispatch: a dispatched call whose task
\* completed less than max_execution_time after the dispatch is not
\* reported as timeout, and every timeout result carries an elapsed time
\* of at least max_execution_time.
C26_DeadlineFromDispatch ==
    \A c \in Calls :
        LET deadline == Tenths(args[c].context.max_execution_time)
        IN  (pc[c] = "done" /\ Dispatched(c)) =>
              /\ (task[c].state = "finished" /\ task[c].sleep < deadline) =>
                    result[c].status # "timeout"
              /\ result[c].status = "timeout" =>
                    result[c].execution_time >= deadline

----------------------------------------------------------------------------
\* The catalog declares the tool of type echo, with no required parameter
\* and required permission guest
EchoTool(registry, tool_name) ==
    /\ tool_name \in DOMAIN registry
    /\ Get(registry[tool_name], "type", "unknown") = "echo"
    /\ Get(registry[tool_name], "required_params", <<>>) = <<>>
    /\ Get(registry[tool_name], "required_permission", "user") = "guest"

\* What such a tool answers to the call
EchoOf(c) ==
    IF "message" \in args[c].inputs.keys THEN ValueOf("message")
    ELSE "Hello from Primarch!"

EchoResult(res, c) ==
    /\ res.status = "success"
    /\ res.data = EchoOf(c)
    /\ res.error = "none"
    /\ res.metadata = [tool_name |-> args[c].tool_name,
                       session_id |-> args[c].context.session_id]

\* C27 as stated: every call on such a tool, whatever the tier of the
\* caller, returns success with the message of the inputs (or the default
\* text) as data and the tool name and session id as metadata.
C27_EchoAlwaysSucceeds ==
    \A c \in Calls :
        (Finished(c) /\ EchoTool(snapshot[c], args[c].tool_name)) =>
            (pc[c] = "done" /\ EchoResult(result[c], c))

\* C27 amended: every call on such a tool is dispatched, whatever the tier
\* of the caller; when it starts its capability, with inputs that are a
\* dict and the active catalog declaring the tool so, it returns success
\* with the message of the inputs (or the default text) as data and the
\* tool name and session id as metadata.
C27_EchoReturnsMessage ==
    [][\A c \in Calls :
          /\ (pc[c] = "idle" /\ pc'[c] # "idle"
                 /\ EchoTool(tool_registry, args'[c].tool_name)) =>
                (pc'[c] = "awaiting" /\ task'[c].state = "scheduled")
          /\ (Starting(c) /\ EchoTool(tool_registry, args[c].tool_name)
                 /\ args[c].inputs.kind = "dict") =>
                (pc'[c] = "done" /\ EchoResult(result'[c], c))
      ]_vars

C27_Witness ==
    /\ pc["c1"] = "done"
    /\ args["c1"].tool_name = "echo"
    /\ args["c1"].inputs = [kind |-> "dict", keys |-> {"message"}]
    /\ args["c1"].context.permission_level = "guest"
    /\ result["c1"].status = "success"
    /\ result["c1"].data = "<message>"
    /\ result["c1"].metadata = [tool_name |-> "echo", session_id |-> "s1"]

----------------------------------------------------------------------------
\* C28: a step of get_available_tools (with the check_permissions it runs)
\* or of get_tool_health leaves the catalog, the execution counters, the
\* latency histogram and the in-flight gauge as they were, and the
\* validation and permission check run at the entry of a call leave the
\* catalog as it was.
C28_ReadsChangeNothing ==
    [][/\ (reader' # reader \/ health' # health) =>
             UNCHANGED <<tool_registry, tool_execution_counter,
                         tool_execution_duration, active_tools>>
       /\ (\E c \in Calls : pc[c] = "idle" /\ Count(log'[c], "validate") = 1) =>
             UNCHANGED tool_registry
      ]_vars

C28_Witness ==
    /\ Len(health) = 2
    /\ reader["r1"].pc = "done" /\ Len(reader["r1"].available_tools) = 3
    /\ pc["c1"] = "done" /\ Authorizing("c1")
    /\ Total(tool_execution_counter, CounterLabels) = 1
    /\ tool_registry = CatalogA

----------------------------------------------------------------------------
\* The ToolResult execute_tool_safe returned to the thread
SafeResult(g) == execute_tool_safe(GetterOutcome(g), CallOutcome(CallOf[g]))

\* The execute_tool_safe call of the thread has ended
SafeEnded(g) ==
    \/ getter[g].pc = "raised"
    \/ getter[g].pc = "returned" /\ Finished(CallOf[g])

ExceptionNames == {"ValueError", "TypeError", "AttributeError", "KeyError"}

\* C29: every execute_tool_safe call that has ended returned a ToolResult:
\* when get_adapter or execute_tool raised, one with status failure, an
\* error that starts with "Adapter error: " and elapsed time 0, nothing
\* being recorded for it; otherwise the result of execute_tool.  Counter
\* increments and latency observations are as many as the calls of
\* execute_tool that returned.
C29_BoundaryCatchesAll ==
    /\ \A g \in Getters :
          SafeEnded(g) =>
             LET c == CallOf[g]
                 r == SafeResult(g)
             IN  /\ r.status \in Statuses
                 /\ (getter[g].pc = "raised" \/ pc[c] = "raised") =>
                       /\ r.status = "failure"
                       /\ r.data = "none"
                       /\ \E e \in ExceptionNames : r.error = "Adapter error: " \o e
                       /\ r.execution_time = 0
                       /\ Count(log[c], "record") = 0
                 /\ (getter[g].pc = "returned" /\ pc[c] = "done") =>
                       /\ r = result[c]
                       /\ Count(log[c], "record") = 1
    /\ Total(tool_execution_counter, CounterLabels)
          = Cardinality({c \in Calls : pc[c] = "done"})
    /\ Total(tool_execution_duration, GaugeLabels)
          = Cardinality({c \in Calls : pc[c] = "done"})

C29_Witness ==
    \E g, h \in Getters :
        /\ getter[g].pc = "raised"
        /\ SafeResult(g) = ToolResult("failure", "none", "Adapter error: ValueError", 0)
        /\ getter[h].pc = "returned" /\ pc[CallOf[h]] = "raised"
        /\ SafeResult(h) = ToolResult("failure", "none", "Adapter error: TypeError", 0)
        /\ Total(tool_execution_counter, CounterLabels) = 0

----------------------------------------------------------------------------
\* C30: at most one ToolAdapter is ever constructed, and every get_adapter
\* call that has ended returned that one instance, the one the global
\* holds.
C30_OneAdapterForAll ==
    /\ Cardinality({g \in Getters : getter[g].registered > 0}) <= 1
    /\ \A g \in Getters :
          getter[g].pc \in {"returned", "raised"} =>
             /\ getter[g].pc = "returned"
             /\ getter[g].adapter # "None"
             /\ getter[g].adapter = adapter_instance

----------------------------------------------------------------------------
\* The names the listing of the thread returned
NamesListed(r) ==
    {reader[r].available_tools[i].name : i \in 1..Len(reader[r].available_tools)}

\* The listing of the thread and the call were made on the same catalog by
\* callers of the same tenant and tier, and both have returned
SameCatalogAndContext(r, c) ==
    /\ reader[r].pc = "done" /\ pc[c] = "done"
    /\ reader[r].view = snapshot[c]
    /\ reader[r].context.tenant_id = args[c].context.tenant_id
    /\ reader[r].context.permission_level = args[c].context.permission_level

\* C31: for a listing and a call made on the same catalog with the same
\* context, a tool of the catalog called with all its required parameters
\* is in the listing iff the call does not return permission_denied, and
\* a call on a name that is not in the listing ends with neither success,
\* failure nor timeout.
C31_ListingAgreesWithExecution ==
    \A r \in Readers, c \in Calls :
        SameCatalogAndContext(r, c) =>
            /\ (KnownTool(c) /\ ~LacksRequired(c)) =>
                  (args[c].tool_name \in NamesListed(r)
                      <=> result[c].status # "permission_denied")
            /\ args[c].tool_name \notin NamesListed(r) =>
                  /\ result[c].status \in {"validation_error", "permission_denied"}
                  /\ ~Dispatched(c) /\ ~Invoked(c)

C31_Witness ==
    /\ SameCatalogAndContext("r1", "c1")
    /\ args["c1"].context.permission_level = "user"
    /\ args["c1"].tool_name = "vault"
    /\ "vault" \notin NamesListed("r1") /\ "search" \in NamesListed("r1")
    /\ result["c1"].status = "permission_denied"

C31_WitnessListed ==
    /\ SameCatalogAndContext("r1", "c1")
    /\ args["c1"].context.permission_level = "superuser"
    /\ args["c1"].tool_name = "echo"
    /\ NamesListed("r1") = {"echo"}
    /\ result["c1"].status = "success"

====
